---- MODULE Spec2Model ----
(***************************************************************************)
(* Model of src/main.py: four request handlers of the Spotify proxy        *)
(* (refresh_token, get_recently_played, get_currently_playing, callback)   *)
(* and the two aggregation functions (get_top_albums, get_top_genres).     *)
(*                                                                         *)
(* The service keeps no state between requests.  The state of the model is *)
(* the last request handled: which handler ran, its input, the upstream    *)
(* responses it consumed and the response it produced.                     *)
(***************************************************************************)
EXTENDS Integers, Sequences, FiniteSets, TLC

VARIABLES
    endpoint,   \* the handler or function that ran, "none" before it has
    request,    \* its input
    upstream,   \* the upstream responses it consumed, in call order
    did_parse,  \* whether it called json() on an upstream response
    response    \* what it answered

vars == <<endpoint, request, upstream, did_parse, response>>

-----------------------------------------------------------------------------
(* Bounds of the input sets.                                               *)

\* number of freely chosen tracks of a track list
MaxTracks == 3
\* number of distinct album ids the freely chosen tracks draw from
MaxAlbum == 3
\* number of freely chosen artists of an artist list
MaxArtists == 2
\* number of genre tags of the freely chosen artists together
MaxTags == 3
\* number of distinct genres the freely chosen artists draw from
MaxGenre == 2
\* number of distinct once-seen albums (genres) of the long block that an
\* input may carry in front of or behind the freely chosen part
BlockLen == 9

-----------------------------------------------------------------------------
(* JSON values as Python sees them after json(): tagged records.           *)
(* A key that is absent from an object is absent from the DOMAIN of its v. *)

Null == [t |-> "null"]
Absent == [t |-> "absent"]
\* the body of a response whose text is not JSON: json() raises on it
NonJson == [t |-> "nonjson"]
Str(s) == [t |-> "str", v |-> s]
Num(n) == [t |-> "num", v |-> n]
Bool(b) == [t |-> "bool", v |-> b]
List(l) == [t |-> "list", v |-> l]
Dict(f) == [t |-> "dict", v |-> f]

EmptyDict == Dict(<<>>)
EmptyList == List(<<>>)

\* an object from a record of candidate fields, dropping the absent ones
Fields(r) == Dict([k \in {j \in DOMAIN r : r[j].t # "absent"} |-> r[k]])

IsDict(x) == x.t = "dict"
IsList(x) == x.t = "list"

\* dict.get(key, default); only defined on a dict
Get(d, key, default) == IF key \in DOMAIN d.v THEN d.v[key] ELSE default

\* Python truth value, as tested by `not x`
Truthy(x) ==
    CASE x.t = "null" -> FALSE
      [] x.t = "str" -> x.v # ""
      [] x.t = "num" -> x.v # 0
      [] x.t = "bool" -> x.v
      [] x.t = "list" -> Len(x.v) > 0
      [] x.t = "dict" -> DOMAIN x.v # {}
      [] OTHER -> FALSE

-----------------------------------------------------------------------------
(* Upstream responses (requests.Response) and exceptions.                  *)

\* requests.get / requests.post raised instead of returning (network)
Transport == [kind |-> "transport", status_code |-> 0, body |-> NonJson]
Resp(code, body) == [kind |-> "response", status_code |-> code, body |-> body]

\* Response.raise_for_status raises HTTPError for 400..599
RaisesForStatus(r) == r.status_code >= 400 /\ r.status_code < 600
\* Response.ok
Ok(r) == ~RaisesForStatus(r)

\* the exception classes below requests.exceptions.RequestException
RequestException == {"ConnectionError", "HTTPError", "JSONDecodeError"}

\* what a handler's code ends with: a return or a raised exception
Return(body, calls, parsed) ==
    [raised |-> "none", status_code |-> 200, detail |-> "", body |-> body,
     calls |-> calls, parsed |-> parsed]
Raise(exc, calls, parsed) ==
    [raised |-> exc, status_code |-> 0, detail |-> exc, body |-> Null,
     calls |-> calls, parsed |-> parsed]
HTTPException(code, detail, calls, parsed) ==
    [raised |-> "HTTPException", status_code |-> code, detail |-> detail,
     body |-> Null, calls |-> calls, parsed |-> parsed]

\* the framework turns the outcome of a handler into the HTTP response:
\* an HTTPException gives its own status, any other exception a 500
Respond(o) ==
    CASE o.raised = "none" ->
           [status_code |-> 200, detail |-> "", body |-> o.body]
      [] o.raised = "HTTPException" ->
           [status_code |-> o.status_code, detail |-> o.detail, body |-> Null]
      [] OTHER ->
           [status_code |-> 500, detail |-> "Internal Server Error",
            body |-> Null]

-----------------------------------------------------------------------------
(* POST /refresh-token                                                     *)

\* the try block of refresh_token
refresh_token_try(req, up) ==
    IF req.t = "nonjson" THEN Raise("JSONDecodeError", 0, FALSE)
    ELSE IF ~IsDict(req) THEN Raise("AttributeError", 0, FALSE)
    ELSE IF ~Truthy(Get(req, "refresh_token", Null))
         THEN HTTPException(400, "Refresh token is required", 0, FALSE)
    ELSE IF up.kind = "transport" THEN Raise("ConnectionError", 1, FALSE)
    ELSE IF ~Ok(up)
         THEN HTTPException(up.status_code, "Failed to refresh token", 1, FALSE)
    ELSE IF up.body.t = "nonjson" THEN Raise("JSONDecodeError", 1, TRUE)
    ELSE Return(up.body, 1, TRUE)

\* refresh_token: `except Exception` catches every exception of the try
\* block, HTTPException included, and raises a 500 in its place
refresh_token(req, up) ==
    LET o == refresh_token_try(req, up)
    IN  IF o.raised # "none"
        THEN HTTPException(500, "str(e)", o.calls, o.parsed)
        ELSE o

-----------------------------------------------------------------------------
(* GET /recently-played                                                    *)

get_recently_played_try(up) ==
    IF up.kind = "transport" THEN Raise("ConnectionError", 1, FALSE)
    ELSE IF up.status_code = 401
         THEN HTTPException(401, "Token expired", 1, FALSE)
    ELSE IF RaisesForStatus(up) THEN Raise("HTTPError", 1, FALSE)
    ELSE IF up.body.t = "nonjson" THEN Raise("JSONDecodeError", 1, TRUE)
    ELSE Return(up.body, 1, TRUE)

\* a variant whose except clause is the `except Exception` of refresh_token
get_recently_played_catch_all(up) ==
    LET o == get_recently_played_try(up)
    IN  IF o.raised # "none"
        THEN HTTPException(500, "str(e)", o.calls, o.parsed)
        ELSE o

\* get_recently_played: only RequestException is caught
get_recently_played(up) ==
    LET o == get_recently_played_try(up)
    IN  IF o.raised \in RequestException
        THEN HTTPException(500, "str(e)", o.calls, o.parsed)
        ELSE o

-----------------------------------------------------------------------------
(* GET /currently-playing                                                  *)

\* the body returned for an upstream 204
NothingPlaying ==
    Dict([is_playing |-> Bool(FALSE), track |-> Null])

\* [artist.get("name") for artist in artists]
ArtistNames(artists) ==
    List([i \in 1..Len(artists.v) |-> Get(artists.v[i], "name", Null)])

\* the track_data literal; every x.get(...) needs x to be a dict, and the
\* comprehension needs a list of dicts; anything else raises
track_data(data, calls) ==
    IF ~IsDict(data) THEN Raise("AttributeError", calls, TRUE)
    ELSE
    LET item == Get(data, "item", EmptyDict)
    IN  IF ~IsDict(item) THEN Raise("AttributeError", calls, TRUE)
        ELSE
        LET artists == Get(item, "artists", EmptyList)
            album == Get(item, "album", EmptyDict)
            external_urls == Get(item, "external_urls", EmptyDict)
        IN  IF ~IsList(artists) THEN Raise("TypeError", calls, TRUE)
            ELSE IF \E i \in 1..Len(artists.v) : ~IsDict(artists.v[i])
                 THEN Raise("AttributeError", calls, TRUE)
            ELSE IF ~IsDict(album) THEN Raise("AttributeError", calls, TRUE)
            ELSE IF ~IsDict(external_urls)
                 THEN Raise("AttributeError", calls, TRUE)
            ELSE Return(
                Dict([is_playing |-> Get(data, "is_playing", Bool(FALSE)),
                      track |-> Dict(
                        [name |-> Get(item, "name", Null),
                         artists |-> ArtistNames(artists),
                         album |-> Dict(
                            [name |-> Get(album, "name", Null),
                             images |-> Get(album, "images", EmptyList)]),
                         duration_ms |-> Get(item, "duration_ms", Null),
                         progress_ms |-> Get(data, "progress_ms", Null),
                         external_url |-> Get(external_urls, "spotify", Null)
                        ])]),
                calls, TRUE)

\* a variant of the try block without the 204 branch
get_currently_playing_no_204(up) ==
    IF up.kind = "transport" THEN Raise("ConnectionError", 1, FALSE)
    ELSE IF up.status_code = 401
         THEN HTTPException(401, "Token expired", 1, FALSE)
    ELSE IF RaisesForStatus(up) THEN Raise("HTTPError", 1, FALSE)
    ELSE IF up.body.t = "nonjson" THEN Raise("JSONDecodeError", 1, TRUE)
    ELSE track_data(up.body, 1)

\* the try block of get_currently_playing
get_currently_playing_try(up) ==
    IF up.kind = "transport" THEN Raise("ConnectionError", 1, FALSE)
    ELSE IF up.status_code = 204 THEN Return(NothingPlaying, 1, FALSE)
    ELSE IF up.status_code = 401
         THEN HTTPException(401, "Token expired", 1, FALSE)
    ELSE IF RaisesForStatus(up) THEN Raise("HTTPError", 1, FALSE)
    ELSE IF up.body.t = "nonjson" THEN Raise("JSONDecodeError", 1, TRUE)
    ELSE track_data(up.body, 1)

\* get_currently_playing: only RequestException is caught
get_currently_playing(up) ==
    LET o == get_currently_playing_try(up)
    IN  IF o.raised \in RequestException
        THEN HTTPException(500, "str(e)", o.calls, o.parsed)
        ELSE o

-----------------------------------------------------------------------------
(* get_top_albums                                                          *)

\* len(top_albums[:10])
TopAlbumsLimit == 10

\* index of album_id in the insertion-ordered album_stats, 0 if not a key
KeyIndex(album_stats, album_id) ==
    IF \E i \in 1..Len(album_stats) : album_stats[i].id = album_id
    THEN CHOOSE i \in 1..Len(album_stats) : album_stats[i].id = album_id
    ELSE 0

\* album_stats[album_id] = {...} for an album seen for the first time
NewAlbumStats(album, album_id) ==
    [id |-> album_id,
     name |-> Get(album, "name", Null),
     artists |-> ArtistNames(Get(album, "artists", EmptyList)),
     images |-> Get(album, "images", EmptyList),
     release_date |-> Get(album, "release_date", Null),
     total_tracks |-> Get(album, "total_tracks", Null),
     external_url |-> Get(Get(album, "external_urls", EmptyDict),
                          "spotify", Null),
     count |-> 0,
     tracks |-> <<>>]

\* a variant of the loop body that sets the count instead of incrementing it
AlbumLoopBodySetsCount(album_stats, track) ==
    LET album == Get(track, "album", EmptyDict)
        album_id == Get(album, "id", Null)
    IN  IF ~Truthy(album_id) THEN album_stats
        ELSE
        LET known == KeyIndex(album_stats, album_id)
            stats == IF known = 0
                     THEN Append(album_stats, NewAlbumStats(album, album_id))
                     ELSE album_stats
            k == IF known = 0 THEN Len(stats) ELSE known
        IN  [stats EXCEPT
               ![k].count = 1,
               ![k].tracks = Append(@, [name |-> Get(track, "name", Null),
                                        popularity |->
                                            Get(track, "popularity", Null)])]

\* one iteration of `for track in tracks_data.get('items', [])`
AlbumLoopBody(album_stats, track) ==
    LET album == Get(track, "album", EmptyDict)
        album_id == Get(album, "id", Null)
    IN  IF ~Truthy(album_id) THEN album_stats
        ELSE
        LET known == KeyIndex(album_stats, album_id)
            stats == IF known = 0
                     THEN Append(album_stats, NewAlbumStats(album, album_id))
                     ELSE album_stats
            k == IF known = 0 THEN Len(stats) ELSE known
        IN  [stats EXCEPT
               ![k].count = @ + 1,
               ![k].tracks = Append(@, [name |-> Get(track, "name", Null),
                                        popularity |->
                                            Get(track, "popularity", Null)])]

RECURSIVE AlbumLoop(_, _)
\* album_stats after the loop has run over the first n items
AlbumLoop(items, n) ==
    IF n = 0 THEN <<>>
    ELSE AlbumLoopBody(AlbumLoop(items, n - 1), items[n])

\* a variant of the insertion that puts x in front of the records of equal
\* count
InsertBeforeEqual(sorted, x) ==
    LET k == Cardinality({j \in 1..Len(sorted) : sorted[j].count > x.count})
    IN  SubSeq(sorted, 1, k) \o <<x>> \o SubSeq(sorted, k + 1, Len(sorted))

\* x placed into a list sorted by count descending, behind the records of
\* equal count
InsertByCount(sorted, x) ==
    LET k == Cardinality({j \in 1..Len(sorted) : sorted[j].count >= x.count})
    IN  SubSeq(sorted, 1, k) \o <<x>> \o SubSeq(sorted, k + 1, Len(sorted))

RECURSIVE SortByCount(_, _)
\* sort(key=count, reverse=True) of the first n records: Python's sort is
\* stable, also with reverse=True
SortByCount(s, n) ==
    IF n = 0 THEN <<>>
    ELSE InsertByCount(SortByCount(s, n - 1), s[n])

Min(a, b) == IF a < b THEN a ELSE b

get_top_albums(tracks_data) ==
    LET items == Get(tracks_data, "items", EmptyList).v
        album_stats == AlbumLoop(items, Len(items))
        top_albums == SortByCount(album_stats, Len(album_stats))
    IN  SubSeq(top_albums, 1, Min(TopAlbumsLimit, Len(top_albums)))

-----------------------------------------------------------------------------
(* get_top_genres                                                          *)

\* len(sorted_genres[:10])
TopGenresLimit == 10

\* a variant of the counting step that counts a genre once per list
CountGenreOnce(genre_count, genre) ==
    IF \E i \in 1..Len(genre_count) : genre_count[i].genre = genre
    THEN genre_count
    ELSE Append(genre_count, [genre |-> genre, count |-> 1])

\* genre_count[genre] = genre_count.get(genre, 0) + 1 on the insertion-
\* ordered genre_count
CountGenre(genre_count, genre) ==
    IF \E i \in 1..Len(genre_count) : genre_count[i].genre = genre
    THEN LET k == CHOOSE i \in 1..Len(genre_count) :
                      genre_count[i].genre = genre
         IN  [genre_count EXCEPT ![k].count = @ + 1]
    ELSE Append(genre_count, [genre |-> genre, count |-> 1])

RECURSIVE GenreLoop(_, _, _)
\* genre_count after the inner loop has run over the first n genres of an
\* artist
GenreLoop(genre_count, genres, n) ==
    IF n = 0 THEN genre_count
    ELSE CountGenre(GenreLoop(genre_count, genres, n - 1), genres[n])

RECURSIVE ArtistLoop(_, _)
\* genre_count after the outer loop has run over the first n artists
ArtistLoop(items, n) ==
    IF n = 0 THEN <<>>
    ELSE LET genres == Get(items[n], "genres", EmptyList).v
         IN  GenreLoop(ArtistLoop(items, n - 1), genres, Len(genres))

\* the ordered mapping dict(sorted_genres[:10]) as its sequence of items
get_top_genres(artists_data) ==
    LET items == Get(artists_data, "items", EmptyList).v
        genre_count == ArtistLoop(items, Len(items))
        sorted_genres == SortByCount(genre_count, Len(genre_count))
    IN  SubSeq(sorted_genres, 1, Min(TopGenresLimit, Len(sorted_genres)))

-----------------------------------------------------------------------------
(* GET /callback                                                           *)

\* the eight fetches after the token exchange, in the order of the code
FetchNames ==
    <<"user_profile", "short_term_artists", "medium_term_artists",
      "medium_term_artists_long", "long_term_artists", "short_term_tracks",
      "medium_term_tracks", "long_term_tracks">>

\* requests.get(...).json() of one fetch: the status is never looked at
FetchRaises(r) == r.kind = "transport" \/ r.body.t = "nonjson"
FetchException(r) ==
    IF r.kind = "transport" THEN "ConnectionError" ELSE "JSONDecodeError"

\* {**a, **b}
Merge(a, b) ==
    [k \in DOMAIN a \cup DOMAIN b |-> IF k \in DOMAIN b THEN b[k] ELSE a[k]]

\* the user_data literal
user_data(token_data, f) ==
    Dict(Merge(f[1].body.v,
        [access_token |-> Get(token_data, "access_token", Null),
         refresh_token |-> Get(token_data, "refresh_token", Null),
         expires_in |-> Get(token_data, "expires_in", Num(3600)),
         short_term |-> f[2].body,
         medium_term |-> f[3].body,
         long_term |-> f[5].body,
         long_term_tracks |-> f[8].body,
         medium_term_tracks |-> f[7].body,
         medium_term_artists_long |-> f[4].body,
         short_term_tracks |-> f[6].body,
         top_albums |->
            [short_term |-> get_top_albums(f[6].body),
             medium_term |-> get_top_albums(f[7].body),
             long_term |-> get_top_albums(f[8].body)],
         top_genres |->
            [short_term |-> get_top_genres(f[2].body),
             medium_term |-> get_top_genres(f[3].body),
             long_term |-> get_top_genres(f[5].body)]]))

\* the part of the try block behind the token check: the fetches run in
\* order and the first one to raise ends the handler; f holds the responses
\* up to that one
callback_fetches(token_data, f) ==
    IF \E i \in 1..Len(f) : FetchRaises(f[i])
    THEN LET i == CHOOSE j \in 1..Len(f) :
                    /\ FetchRaises(f[j])
                    /\ \A k \in 1..(j - 1) : ~FetchRaises(f[k])
         IN  Raise(FetchException(f[i]), 1 + i, TRUE)
    ELSE IF \E i \in 1..Len(f) : i # 4 /\ ~IsDict(f[i].body)
         THEN Raise("AttributeError", 1 + Len(f), TRUE)
    ELSE Return(user_data(token_data, f), 1 + Len(f), TRUE)

\* a variant of the token exchange that asks for only one of the two tokens
token_exchange_either_token(tok) ==
    IF tok.kind = "transport" THEN Raise("ConnectionError", 1, FALSE)
    ELSE IF RaisesForStatus(tok) THEN Raise("HTTPError", 1, FALSE)
    ELSE IF tok.body.t = "nonjson" THEN Raise("JSONDecodeError", 1, TRUE)
    ELSE IF ~IsDict(tok.body) THEN Raise("AttributeError", 1, TRUE)
    ELSE IF /\ ~Truthy(Get(tok.body, "access_token", Null))
            /\ ~Truthy(Get(tok.body, "refresh_token", Null))
         THEN HTTPException(400, "Failed to retrieve tokens", 1, TRUE)
    ELSE Return(tok.body, 1, TRUE)

\* the head of the try block of callback: the token exchange and the check
\* of its tokens; it returns token_data when the handler goes on
token_exchange(tok) ==
    IF tok.kind = "transport" THEN Raise("ConnectionError", 1, FALSE)
    ELSE IF RaisesForStatus(tok) THEN Raise("HTTPError", 1, FALSE)
    ELSE IF tok.body.t = "nonjson" THEN Raise("JSONDecodeError", 1, TRUE)
    ELSE IF ~IsDict(tok.body) THEN Raise("AttributeError", 1, TRUE)
    ELSE IF \/ ~Truthy(Get(tok.body, "access_token", Null))
            \/ ~Truthy(Get(tok.body, "refresh_token", Null))
         THEN HTTPException(400, "Failed to retrieve tokens", 1, TRUE)
    ELSE Return(tok.body, 1, TRUE)

\* the try block of callback
callback_try(tok, f) ==
    LET t == token_exchange(tok)
    IN  IF t.raised # "none" THEN t ELSE callback_fetches(t.body, f)

\* callback: only RequestException is caught
callback(tok, f) ==
    LET o == callback_try(tok, f)
    IN  IF o.raised \in RequestException
        THEN HTTPException(500, "Error exchanging token", o.calls, o.parsed)
        ELSE o

-----------------------------------------------------------------------------
(* The inputs: inbound requests and upstream responses.                    *)

ErrorBody == Dict([error |-> Str("upstream error")])

RefreshRequests ==
    {NonJson, EmptyList, EmptyDict,
     Dict([refresh_token |-> Null]),
     Dict([refresh_token |-> Str("")]),
     Dict([refresh_token |-> Str("rt")])}

TokenBodies ==
    {NonJson, EmptyList} \cup
    {Fields(r) : r \in [access_token : {Absent, Null, Str(""), Str("at")},
                        refresh_token : {Absent, Str(""), Str("rt")},
                        expires_in : {Absent, Num(3600)}]}

TokenResponses ==
    {Transport} \cup
    {Resp(c, b) : c \in {400, 401, 503}, b \in {NonJson, ErrorBody}} \cup
    {Resp(200, b) : b \in TokenBodies}

RecentlyPlayedResponses ==
    {Transport} \cup
    {Resp(c, b) : c \in {401, 429, 503}, b \in {NonJson, ErrorBody}} \cup
    {Resp(200, b) : b \in {NonJson, Dict([items |-> EmptyList])}}

ArtistsValues ==
    {Absent, Null, EmptyList, List(<<Null>>),
     List(<<Dict([name |-> Str("artist")])>>),
     List(<<EmptyDict, Dict([name |-> Str("artist")])>>)}

AlbumValues ==
    {Absent, Null} \cup
    {Fields(r) : r \in [name : {Absent, Str("album")},
                        images : {Absent, Null, EmptyList}]}

ExternalUrlsValues ==
    {Absent, Null, EmptyDict, Dict([spotify |-> Str("url")])}

ItemValues ==
    {Absent, Null} \cup
    {Fields(r) : r \in [name : {Absent, Str("song")},
                        artists : ArtistsValues,
                        album : AlbumValues,
                        duration_ms : {Absent, Num(1)},
                        external_urls : ExternalUrlsValues]}

CurrentlyPlayingBodies ==
    {NonJson, Null, EmptyList} \cup
    {Fields(r) : r \in [is_playing : {Absent, Bool(TRUE)},
                        item : ItemValues,
                        progress_ms : {Absent, Num(1)}]}

CurrentlyPlayingResponses ==
    {Transport, Resp(204, NonJson)} \cup
    {Resp(c, b) : c \in {401, 429, 503}, b \in {NonJson, ErrorBody}} \cup
    {Resp(200, b) : b \in CurrentlyPlayingBodies}

AlbumJson(k) == Dict([id |-> Str(ToString(k)), name |-> Str(ToString(k))])

\* a track list from the albums of its tracks; a track is named by its
\* position
TrackList(albums) ==
    List([i \in 1..Len(albums) |->
            Fields([name |-> Str(ToString(i)), album |-> albums[i]])])

ArtistJson(genres) ==
    Fields([name |-> Str("artist"), genres |-> genres])

GenreList(tags) == List([i \in 1..Len(tags) |-> Str(ToString(tags[i]))])

\* what a fetch of the callback can answer: the list asked for, an error
\* status with a JSON error body, an error status with a body that is not
\* JSON, or no answer at all
FetchResponses(i) ==
    {Transport, Resp(429, ErrorBody), Resp(503, NonJson),
     Resp(200,
          IF i = 1 THEN Dict([id |-> Str("user")])
          ELSE IF i <= 5
          THEN Dict([items |-> List(<<ArtistJson(GenreList(<<1, 2>>)),
                                     ArtistJson(GenreList(<<2>>))>>)])
          ELSE Dict([items |-> TrackList(<<AlbumJson(1), AlbumJson(2),
                                           AlbumJson(2)>>)]))}

RECURSIVE FetchesDone(_)
\* the answers to the first n fetches when none of them raised
FetchesDone(n) ==
    IF n = 0 THEN {<<>>}
    ELSE {Append(f, r) : f \in FetchesDone(n - 1),
                         r \in {x \in FetchResponses(n) : ~FetchRaises(x)}}

\* the answers a run of the fetches consumes: all eight, or those up to the
\* first one that raises
FetchRuns ==
    FetchesDone(Len(FetchNames)) \cup
    UNION {{Append(f, r) : f \in FetchesDone(n - 1),
                           r \in {x \in FetchResponses(n) : FetchRaises(x)}} :
            n \in 1..Len(FetchNames)}

\* the album of each freely chosen track: no album, an album without id,
\* an album with an empty id, or one of MaxAlbum albums
AlbumChoices ==
    {Absent, EmptyDict, Dict([id |-> Str("")])} \cup
    {AlbumJson(k) : k \in 1..MaxAlbum}

\* BlockLen further albums, each on one track
AlbumBlock == [i \in 1..BlockLen |-> AlbumJson(MaxAlbum + i)]

TracksInputs ==
    {EmptyDict} \cup
    {Dict([items |-> TrackList(a)]) :
        a \in UNION {{c, AlbumBlock \o c, c \o AlbumBlock} :
                c \in UNION {[1..n -> AlbumChoices] : n \in 0..MaxTracks}}}

\* the genres of a freely chosen artist with at most t tags: no genres
\* key, or a list of tags out of MaxGenre genres
GenresChoices(t) ==
    {Absent} \cup
    {GenreList(g) : g \in UNION {[1..n -> 1..MaxGenre] : n \in 0..t}}

TagCount(genres) == IF genres.t = "list" THEN Len(genres.v) ELSE 0

RECURSIVE FreeArtists(_, _)
\* the lists of n artists with at most t tags together
FreeArtists(n, t) ==
    IF n = 0 THEN {<<>>}
    ELSE UNION {{<<ArtistJson(g)>> \o a :
                    a \in FreeArtists(n - 1, t - TagCount(g))} :
                g \in GenresChoices(t)}

\* one artist with BlockLen further genres
GenreBlock ==
    <<ArtistJson(GenreList([i \in 1..BlockLen |-> MaxGenre + i]))>>

ArtistsInputs ==
    {EmptyDict} \cup
    {Dict([items |-> List(a)]) :
        a \in UNION {{c, GenreBlock \o c, c \o GenreBlock} :
                c \in UNION {FreeArtists(n, MaxTags) :
                                n \in 0..MaxArtists}}}

-----------------------------------------------------------------------------
(* The service: one request is handled, then the next one.                 *)

Pending ==
    [t |-> "pending", status_code |-> 0, detail |-> "", body |-> Null]

HttpResponse(o) ==
    LET r == Respond(o)
    IN  [t |-> "response", status_code |-> r.status_code,
         detail |-> r.detail, body |-> r.body]

Init ==
    /\ endpoint = "none"
    /\ request = Null
    /\ upstream = <<>>
    /\ did_parse = FALSE
    /\ response = Pending

\* the handler named e answers req with outcome o, having consumed the
\* first o.calls of the upstream responses ups
Handle(e, req, ups, o) ==
    /\ endpoint = "none"
    /\ endpoint' = e
    /\ request' = req
    /\ upstream' = SubSeq(ups, 1, o.calls)
    /\ did_parse' = o.parsed
    /\ response' = HttpResponse(o)

RefreshToken ==
    \E req \in RefreshRequests, up \in TokenResponses :
        Handle("refresh_token", req, <<up>>, refresh_token(req, up))

GetRecentlyPlayed ==
    \E up \in RecentlyPlayedResponses :
        Handle("get_recently_played", Str("at"), <<up>>,
               get_recently_played(up))

GetCurrentlyPlaying ==
    \E up \in CurrentlyPlayingResponses :
        Handle("get_currently_playing", Str("at"), <<up>>,
               get_currently_playing(up))

Callback ==
    \E tok \in TokenResponses :
        \E f \in IF token_exchange(tok).raised = "none"
                 THEN FetchRuns ELSE {<<>>} :
            Handle("callback", Str("code"), <<tok>> \o f, callback(tok, f))

\* nothing of a request is kept for the next one
NextRequest ==
    /\ endpoint # "none"
    /\ endpoint' = "none"
    /\ request' = Null
    /\ upstream' = <<>>
    /\ did_parse' = FALSE
    /\ response' = Pending

Next ==
    \/ RefreshToken
    \/ GetRecentlyPlayed
    \/ GetCurrentlyPlaying
    \/ Callback
    \/ NextRequest

Spec == Init /\ [][Next]_vars

-----------------------------------------------------------------------------
(* The aggregation functions on their own, applied to an input.            *)

InitAlbums ==
    /\ endpoint = "get_top_albums"
    /\ request \in TracksInputs
    /\ upstream = <<>>
    /\ did_parse = FALSE
    /\ response = Pending

GetTopAlbums ==
    /\ endpoint = "get_top_albums"
    /\ response.t = "pending"
    /\ response' = [t |-> "returned", status_code |-> 0, detail |-> "",
                    body |-> get_top_albums(request)]
    /\ UNCHANGED <<endpoint, request, upstream, did_parse>>

NextAlbums == GetTopAlbums

SpecAlbums == InitAlbums /\ [][NextAlbums]_vars

InitGenres ==
    /\ endpoint = "get_top_genres"
    /\ request \in ArtistsInputs
    /\ upstream = <<>>
    /\ did_parse = FALSE
    /\ response = Pending

GetTopGenres ==
    /\ endpoint = "get_top_genres"
    /\ response.t = "pending"
    /\ response' = [t |-> "returned", status_code |-> 0, detail |-> "",
                    body |-> get_top_genres(request)]
    /\ UNCHANGED <<endpoint, request, upstream, did_parse>>

NextGenres == GetTopGenres

SpecGenres == InitGenres /\ [][NextGenres]_vars

-----------------------------------------------------------------------------
(* Properties of the handlers, under Spec.                                 *)

Is2xx(code) == code >= 200 /\ code < 300

\* the handler made one upstream call and got an answer with status code
Answered(code) ==
    /\ Len(upstream) = 1
    /\ upstream[1].kind = "response"
    /\ upstream[1].status_code = code

\* key is absent from the object d, or null or empty in it
Lacks(d, key) ==
    \/ key \notin DOMAIN d.v
    \/ d.v[key].t = "null"
    \/ d.v[key].t = "str" /\ d.v[key].v = ""

\* C1: a POST /refresh-token whose body has no refresh_token field, or an
\* empty one, is answered with status 400 and makes no upstream call.
C1_MissingRefreshTokenIs400 ==
    (/\ endpoint = "refresh_token"
     /\ IsDict(request)
     /\ Lacks(request, "refresh_token"))
    => (response.status_code = 400 /\ upstream = <<>>)

\* C2: when the upstream token endpoint answers a POST /refresh-token that
\* supplies a refresh_token with a non-2xx status code c, the response has
\* status c.
C2_UpstreamStatusForwarded ==
    (/\ endpoint = "refresh_token"
     /\ Len(upstream) = 1
     /\ upstream[1].kind = "response"
     /\ ~Is2xx(upstream[1].status_code))
    => response.status_code = upstream[1].status_code

\* C3: when one of the eight fetches of the callback handler is answered
\* with a non-2xx status, the handler fails: it does not answer 200.
C3_FailedFetchFailsCallback ==
    (/\ endpoint = "callback"
     /\ \E i \in 2..Len(upstream) :
            /\ upstream[i].kind = "response"
            /\ ~Is2xx(upstream[i].status_code))
    => response.status_code # 200

\* C4: when the upstream GET of recently-played or currently-playing is
\* answered with status 401, the response has status 401 and detail
\* "Token expired".
C4_TokenExpiredIs401 ==
    (/\ endpoint \in {"get_recently_played", "get_currently_playing"}
     /\ Answered(401))
    => (response.status_code = 401 /\ response.detail = "Token expired")

C4_Witness ==
    /\ endpoint = "get_recently_played"
    /\ Answered(401)
    /\ response.status_code = 401

\* C5: when the token exchange of the callback handler is answered with a
\* 2xx status and a JSON object that lacks access_token or refresh_token,
\* the response has status 400.
C5_MissingTokensIs400 ==
    (/\ endpoint = "callback"
     /\ Len(upstream) >= 1
     /\ upstream[1].kind = "response"
     /\ Is2xx(upstream[1].status_code)
     /\ IsDict(upstream[1].body)
     /\ (Lacks(upstream[1].body, "access_token")
            \/ Lacks(upstream[1].body, "refresh_token")))
    => (response.status_code = 400 /\ Len(upstream) = 1)

C5_Witness ==
    /\ endpoint = "callback"
    /\ Answered(200)
    /\ IsDict(upstream[1].body)
    /\ ~Lacks(upstream[1].body, "access_token")
    /\ "refresh_token" \notin DOMAIN upstream[1].body.v
    /\ response.status_code = 400

\* C6: every 200 answer of the upstream currently-playing query that is a
\* JSON object, whichever of its inner objects are absent or null, gets the
\* shaped payload with status 200.
C6_TolerantExtraction ==
    (/\ endpoint = "get_currently_playing"
     /\ Answered(200)
     /\ IsDict(upstream[1].body))
    => (/\ response.status_code = 200
        /\ IsDict(response.body)
        /\ DOMAIN response.body.v = {"is_playing", "track"})

\* C10: when the upstream currently-playing query is answered with status
\* 204, the response has status 200 and body {is_playing: false, track:
\* null}, and json() was not called on the upstream response.
C10_NothingPlaying ==
    (endpoint = "get_currently_playing" /\ Answered(204))
    => (/\ response.status_code = 200
        /\ response.body = Dict([is_playing |-> Bool(FALSE), track |-> Null])
        /\ ~did_parse)

C10_Witness ==
    /\ endpoint = "get_currently_playing"
    /\ Answered(204)
    /\ response.status_code = 200

-----------------------------------------------------------------------------
(* Properties of get_top_albums, under SpecAlbums.  They are stated on the *)
(* input list itself, not on album_stats.                                  *)

TracksOf(tracks_data) ==
    IF "items" \in DOMAIN tracks_data.v THEN tracks_data.v["items"].v
    ELSE <<>>

\* the album id of a track, "" when the track has none
AlbumIdOf(track) ==
    IF /\ "album" \in DOMAIN track.v
       /\ "id" \in DOMAIN track.v["album"].v
       /\ track.v["album"].v["id"].t = "str"
    THEN track.v["album"].v["id"].v
    ELSE ""

\* the positions of the tracks of album a
TracksOfAlbum(items, a) == {i \in 1..Len(items) : AlbumIdOf(items[i]) = a}

AlbumIds(items) == {AlbumIdOf(items[i]) : i \in 1..Len(items)} \ {""}

SetMin(S) == CHOOSE x \in S : \A y \in S : x <= y

\* album a comes before album b: more tracks, or as many and seen first
AlbumBefore(items, a, b) ==
    LET ca == Cardinality(TracksOfAlbum(items, a))
        cb == Cardinality(TracksOfAlbum(items, b))
    IN  \/ ca > cb
        \/ ca = cb /\ SetMin(TracksOfAlbum(items, a))
                        < SetMin(TracksOfAlbum(items, b))

AlbumsReturned ==
    endpoint = "get_top_albums" /\ response.t = "returned"

\* C7: the result of get_top_albums is the per-album aggregates ordered by
\* count descending, albums of equal count in the order their ids were
\* first seen, cut to the first 10: counts are non-increasing, the length is
\* at most 10, and every album left out comes after every album returned.
C7_TopAlbumsOrder ==
    AlbumsReturned =>
        LET items == TracksOf(request)
            out == response.body
            ids == {out[i].id.v : i \in 1..Len(out)}
        IN  /\ Len(out) = Min(10, Cardinality(AlbumIds(items)))
            /\ ids \subseteq AlbumIds(items)
            /\ \A i, j \in 1..Len(out) :
                    i < j => /\ out[i].count >= out[j].count
                             /\ AlbumBefore(items, out[i].id.v, out[j].id.v)
            /\ \A a \in AlbumIds(items) \ ids :
                    \A i \in 1..Len(out) : AlbumBefore(items, out[i].id.v, a)

\* more than 10 albums, and an album seen first is cut while an album of a
\* higher count seen later is returned
C7_Witness ==
    /\ AlbumsReturned
    /\ Cardinality(AlbumIds(TracksOf(request))) > 10
    /\ Len(response.body) = 10
    /\ \E i, j \in 1..Len(response.body) :
            /\ i < j
            /\ response.body[i].count = response.body[j].count
    /\ response.body[1].count > response.body[10].count
    /\ \E a \in AlbumIds(TracksOf(request)) :
            /\ \A i \in 1..10 : response.body[i].id.v # a
            /\ SetMin(TracksOfAlbum(TracksOf(request), a))
                < SetMin(TracksOfAlbum(TracksOf(request),
                                       response.body[1].id.v))

\* C8: the count of every aggregate returned by get_top_albums is the
\* number of tracks of the input with that album id, its tracks are those
\* tracks, and no aggregate has an absent or empty id.
C8_AlbumCount ==
    AlbumsReturned =>
        LET items == TracksOf(request)
            out == response.body
        IN  \A i \in 1..Len(out) :
                /\ out[i].id.t = "str"
                /\ out[i].id.v # ""
                /\ out[i].count
                    = Cardinality(TracksOfAlbum(items, out[i].id.v))
                /\ Len(out[i].tracks) = out[i].count
                /\ {out[i].tracks[j].name : j \in 1..Len(out[i].tracks)}
                    = {items[k].v["name"] :
                            k \in TracksOfAlbum(items, out[i].id.v)}

\* an album on two tracks among tracks without an album id
C8_Witness ==
    /\ AlbumsReturned
    /\ \E i \in 1..Len(response.body) : response.body[i].count = 2
    /\ \E k \in 1..Len(TracksOf(request)) :
            AlbumIdOf(TracksOf(request)[k]) = ""
    /\ \E k \in 1..Len(TracksOf(request)) :
            "album" \notin DOMAIN TracksOf(request)[k].v

-----------------------------------------------------------------------------
(* Properties of get_top_genres, under SpecGenres.                         *)

ArtistsOf(artists_data) ==
    IF "items" \in DOMAIN artists_data.v THEN artists_data.v["items"].v
    ELSE <<>>

GenresOf(artist) ==
    IF "genres" \in DOMAIN artist.v THEN artist.v["genres"].v ELSE <<>>

\* the occurrences of genre g: <<artist, position among its tags>>
Occurrences(items, g) ==
    UNION {{<<i, j>> : j \in {k \in 1..Len(GenresOf(items[i])) :
                                    GenresOf(items[i])[k].v = g}} :
                i \in 1..Len(items)}

AllGenres(items) ==
    UNION {{GenresOf(items[i])[j].v : j \in 1..Len(GenresOf(items[i]))} :
                i \in 1..Len(items)}

\* occurrence p is read before occurrence q
ReadBefore(p, q) == p[1] < q[1] \/ (p[1] = q[1] /\ p[2] < q[2])

FirstOccurrence(items, g) ==
    CHOOSE p \in Occurrences(items, g) :
        \A q \in Occurrences(items, g) : p = q \/ ReadBefore(p, q)

GenreBefore(items, g, h) ==
    LET cg == Cardinality(Occurrences(items, g))
        ch == Cardinality(Occurrences(items, h))
    IN  \/ cg > ch
        \/ cg = ch /\ ReadBefore(FirstOccurrence(items, g),
                                 FirstOccurrence(items, h))

GenresReturned ==
    endpoint = "get_top_genres" /\ response.t = "returned"

\* C9: the result of get_top_genres is an ordered mapping of at most 10
\* entries; the value of a genre is the number of its occurrences over all
\* artists, the entries are in non-increasing order of count, genres of
\* equal count in the order they were first seen, and every genre left out
\* comes after every genre returned.
C9_TopGenres ==
    GenresReturned =>
        LET items == ArtistsOf(request)
            out == response.body
            keys == {out[i].genre.v : i \in 1..Len(out)}
        IN  /\ Len(out) = Min(10, Cardinality(AllGenres(items)))
            /\ Cardinality(keys) = Len(out)
            /\ keys \subseteq AllGenres(items)
            /\ \A i \in 1..Len(out) :
                    out[i].count
                        = Cardinality(Occurrences(items, out[i].genre.v))
            /\ \A i, j \in 1..Len(out) :
                    i < j => /\ out[i].count >= out[j].count
                             /\ GenreBefore(items, out[i].genre.v,
                                            out[j].genre.v)
            /\ \A g \in AllGenres(items) \ keys :
                    \A i \in 1..Len(out) :
                        GenreBefore(items, out[i].genre.v, g)

\* more than 10 genres, one of them twice on one artist
C9_Witness ==
    /\ GenresReturned
    /\ Cardinality(AllGenres(ArtistsOf(request))) > 10
    /\ Len(response.body) = 10
    /\ response.body[1].count = 2
    /\ response.body[2].count = response.body[3].count
    /\ \E i \in 1..Len(ArtistsOf(request)) :
            /\ Len(GenresOf(ArtistsOf(request)[i])) = 2
            /\ GenresOf(ArtistsOf(request)[i])[1]
                = GenresOf(ArtistsOf(request)[i])[2]

====
